---- MODULE Spec2Model ----
(***************************************************************************)
(* A model of SudokuGUI (src/SudokuGUI.py): the constraint checker, the    *)
(* backtracking solver, the bounded solution counter, the puzzle generator *)
(* with its removal loop, the grid validator and the play handlers.        *)
(*                                                                         *)
(* A grid is a function board[r][c] with r, c in 0..8 and values 0..9,     *)
(* 0 being the empty cell, exactly as the lists of lists of the source.    *)
(* Python's random module is a seeded generator: rng = [seed, n] is its    *)
(* state, n counting the shuffles drawn so far.                            *)
(***************************************************************************)
EXTENDS Integers, Sequences, FiniteSets, TLC

VARIABLES
    board,              \* self.board
    temp_board,         \* temp_board, the copy generate_puzzle hands to count_solutions
    solution,           \* self.solution
    original_cells,     \* self.original_cells: a set of <<row, col>>
    pencil_marks,       \* self.pencil_marks[<<row, col>>]: a set of digits
    selected_row,       \* self.selected_row
    selected_col,       \* self.selected_col
    selected_cell,      \* self.selected_cell (assigned by select_cell only)
    auto_pencil_active, \* self.auto_pencil_active
    difficulty,         \* self.difficulty.get(), the combobox value
    rng,                \* state of the random generator
    arg,                \* the list bound to the parameter `board` of the search
    stack,              \* the call stack of solve_board / backtrack
    solutions,          \* solutions[0] of count_solutions
    limit,              \* limit of count_solutions
    ret,                \* the value the last finished call returned
    ret_to,             \* where control goes when the outermost call returns
    gen,                \* the locals of generate_puzzle
    pc,                 \* where the single thread of control stands
    call                \* the last call made on the core from outside

searchVars == <<arg, stack, solutions, limit, ret, ret_to>>
searchVarsButRet == <<arg, stack, solutions, limit, ret_to>>
uiVars == <<pencil_marks, selected_row, selected_col, selected_cell,
            auto_pencil_active, difficulty>>
vars == <<board, temp_board, solution, original_cells, uiVars, rng,
          searchVars, gen, pc, call>>

-----------------------------------------------------------------------------
(* Program constants *)

N == 9
Box == 3
DefaultLimit == 2
DefaultRemovals == 40
CheckEvery == 5

(* Bounds of the model *)

NumSeeds == 3       \* seeds of the generator tried on the core called alone
GameSeeds == 1      \* seeds of the generator tried by new_game
MaxEmpty == 4       \* cells emptied in a grid handed to the core
MaxLimit == 3       \* largest limit handed to count_solutions
MaxClick == 1       \* cells 0..MaxClick, in row-major order, can be clicked

Idx == 0..(N - 1)
Digits == 1..N
Cells == Idx \X Idx

EmptyBoard == [r \in Idx |-> [c \in Idx |-> 0]]

-----------------------------------------------------------------------------
(* random.shuffle: the permutation drawn depends on the generator's state. *)
(* The permutations are the affine maps i -> a*i + s with a invertible.    *)

Units9 == <<1, 2, 4, 5, 7, 8>>

shuffle_digits(r) ==
    LET a == Units9[((r.seed + r.n) % 6) + 1]
        s == (r.seed * 4 + r.n * 7) % N
    IN  [i \in 1..N |-> ((a * (i - 1) + s) % N) + 1]

Units81 == <<1, 2, 4, 5, 7, 8, 10, 11, 13, 14, 16, 17, 19, 20, 22, 23, 25, 26>>

shuffle_positions(r) ==
    LET a == Units81[((r.seed * 7 + r.n) % 18) + 1]
        s == (r.seed * 31 + r.n * 5) % (N * N)
    IN  [i \in 1..(N * N) |->
            LET p == (a * (i - 1) + s) % (N * N)
            IN  <<p \div N, p % N>>]

advance(r) == [r EXCEPT !.n = r.n + 1]

-----------------------------------------------------------------------------
(* is_valid_placement: row scan, column scan, box scan *)

(* is_valid_placement with the box origin taken as row // 3, col // 3 *)
is_valid_placement_wrong_box(b, row, col, num) ==
    LET box_row == row \div Box
        box_col == col \div Box
    IN  /\ \A c \in Idx : b[row][c] # num
        /\ \A r \in Idx : b[r][col] # num
        /\ \A r \in box_row..(box_row + Box - 1) :
              \A c \in box_col..(box_col + Box - 1) : b[r][c] # num

is_valid_placement(b, row, col, num) ==
    LET box_row == Box * (row \div Box)
        box_col == Box * (col \div Box)
    IN  /\ \A c \in Idx : b[row][c] # num
        /\ \A r \in Idx : b[r][col] # num
        /\ \A r \in box_row..(box_row + Box - 1) :
              \A c \in box_col..(box_col + Box - 1) : b[r][c] # num

(* The scan for the first empty cell in row-major order (the nested loops  *)
(* with break that open solve_board and count_solutions.backtrack).        *)

Min(S) == CHOOSE x \in S : \A y \in S : x <= y

find_empty(b) ==
    LET rows == {r \in Idx : \E c \in Idx : b[r][c] = 0}
    IN  IF rows = {} THEN [empty_found |-> FALSE, row |-> 0, col |-> 0]
        ELSE LET r == Min(rows)
             IN  [empty_found |-> TRUE, row |-> r,
                  col |-> Min({c \in Idx : b[r][c] = 0})]

(* The for loop over the candidates, run up to its next valid candidate:   *)
(* the index of the first k >= i with digits[k] placeable, N + 1 when the  *)
(* loop runs out.                                                          *)

(* the loop without its is_valid_placement test: every digit is placed *)
next_candidate_unchecked(b, row, col, digits, i) == i

next_candidate(b, row, col, digits, i) ==
    LET S == {k \in i..N : is_valid_placement(b, row, col, digits[k])}
    IN  IF S = {} THEN N + 1 ELSE Min(S)

-----------------------------------------------------------------------------
(* is_board_filled, is_unit_valid, is_board_valid *)

is_board_filled(b) == \A row \in Idx : \A col \in Idx : b[row][col] # 0

(* is_unit_valid that only asks the unit to be filled *)
is_unit_valid_no_zero(unit) == \A i \in 1..N : unit[i] # 0

is_unit_valid(unit) ==
    SortSeq(unit, LAMBDA x, y : x < y) = [i \in 1..N |-> i]

is_board_valid(b) ==
    /\ \A row \in Idx : is_unit_valid([i \in 1..N |-> b[row][i - 1]])
    /\ \A col \in Idx : is_unit_valid([i \in 1..N |-> b[i - 1][col]])
    /\ \A box_row \in {Box * k : k \in 0..(Box - 1)} :
          \A box_col \in {Box * k : k \in 0..(Box - 1)} :
             is_unit_valid([i \in 1..N |->
                 b[box_row + ((i - 1) \div Box)][box_col + ((i - 1) % Box)]])

-----------------------------------------------------------------------------
(* The search, one step per stretch of code between two calls or returns.  *)
(* The parameter `board` of solve_board and count_solutions is a reference *)
(* to a list: arg says which list, and every write goes to that list.      *)

Grid == IF arg = "board" THEN board ELSE temp_board

SetGrid(g) ==
    IF arg = "board"
    THEN board' = g /\ UNCHANGED temp_board
    ELSE temp_board' = g /\ UNCHANGED board

Top == stack[Len(stack)]
Pop == SubSeq(stack, 1, Len(stack) - 1)
SetTop(f) == [stack EXCEPT ![Len(stack)] = f]

(* solve_board, from its entry to its first placement or its return *)
solve_enter ==
    /\ pc = "solve_enter"
    /\ LET e == find_empty(Grid)
       IN  IF ~e.empty_found
           THEN /\ ret' = TRUE
                /\ pc' = "solve_return"
                /\ UNCHANGED <<stack, rng>>
           ELSE /\ stack' = Append(stack, [row |-> e.row, col |-> e.col,
                                           digits |-> shuffle_digits(rng),
                                           i |-> 1])
                /\ rng' = advance(rng)
                /\ pc' = "solve_loop"
                /\ UNCHANGED ret
    /\ UNCHANGED <<board, temp_board, solution, original_cells, uiVars,
                   arg, solutions, limit, ret_to, gen, call>>

(* the for loop of solve_board: place the next valid digit and recurse,    *)
(* or run out of digits and return False                                   *)
solve_loop ==
    /\ pc = "solve_loop"
    /\ LET f == Top
           k == next_candidate(Grid, f.row, f.col, f.digits, f.i)
       IN  IF k > N
           THEN /\ stack' = Pop
                /\ ret' = FALSE
                /\ pc' = "solve_return"
                /\ UNCHANGED <<board, temp_board>>
           ELSE /\ SetGrid([Grid EXCEPT ![f.row][f.col] = f.digits[k]])
                /\ stack' = SetTop([f EXCEPT !.i = k])
                /\ pc' = "solve_enter"
                /\ UNCHANGED ret
    /\ UNCHANGED <<solution, original_cells, uiVars, rng,
                   arg, solutions, limit, ret_to, gen, call>>

(* solve_return without the line board[row][col] = 0 *)
solve_return_no_undo ==
    /\ pc = "solve_return"
    /\ IF stack = <<>>
       THEN /\ pc' = ret_to
            /\ UNCHANGED stack
       ELSE IF ret
            THEN /\ stack' = Pop
                 /\ pc' = "solve_return"
            ELSE /\ stack' = SetTop([Top EXCEPT !.i = Top.i + 1])
                 /\ pc' = "solve_loop"
    /\ UNCHANGED <<board, temp_board, solution, original_cells, uiVars, rng,
                   arg, solutions, limit, ret, ret_to, gen, call>>

(* solve_return that undoes the placement and then tries the same       *)
(* candidate again, as a loop that does not advance would                  *)
solve_return_same_candidate ==
    /\ pc = "solve_return"
    /\ IF stack = <<>>
       THEN /\ pc' = ret_to
            /\ UNCHANGED <<board, temp_board, stack>>
       ELSE IF ret
            THEN /\ stack' = Pop
                 /\ pc' = "solve_return"
                 /\ UNCHANGED <<board, temp_board>>
            ELSE /\ SetGrid([Grid EXCEPT ![Top.row][Top.col] = 0])
                 /\ UNCHANGED stack
                 /\ pc' = "solve_loop"
    /\ UNCHANGED <<solution, original_cells, uiVars, rng,
                   arg, solutions, limit, ret, ret_to, gen, call>>

(* a recursive solve_board call has returned to its caller: return True    *)
(* in turn, or undo the placement and go on with the loop                  *)
solve_return ==
    /\ pc = "solve_return"
    /\ IF stack = <<>>
       THEN /\ pc' = ret_to
            /\ UNCHANGED <<board, temp_board, stack>>
       ELSE IF ret
            THEN /\ stack' = Pop
                 /\ pc' = "solve_return"
                 /\ UNCHANGED <<board, temp_board>>
            ELSE /\ SetGrid([Grid EXCEPT ![Top.row][Top.col] = 0])
                 /\ stack' = SetTop([Top EXCEPT !.i = Top.i + 1])
                 /\ pc' = "solve_loop"
    /\ UNCHANGED <<solution, original_cells, uiVars, rng,
                   arg, solutions, limit, ret, ret_to, gen, call>>

(* backtrack with the test solutions[0] > limit in place of >= *)
count_enter_off_by_one ==
    /\ pc = "count_enter"
    /\ IF solutions > limit
       THEN /\ pc' = "count_return"
            /\ UNCHANGED <<stack, solutions>>
       ELSE LET e == find_empty(Grid)
            IN  IF ~e.empty_found
                THEN /\ solutions' = solutions + 1
                     /\ pc' = "count_return"
                     /\ UNCHANGED stack
                ELSE /\ stack' = Append(stack, [row |-> e.row, col |-> e.col,
                                                digits |-> [i \in 1..N |-> i],
                                                i |-> 1])
                     /\ pc' = "count_loop"
                     /\ UNCHANGED solutions
    /\ UNCHANGED <<board, temp_board, solution, original_cells, uiVars, rng,
                   arg, limit, ret, ret_to, gen, call>>

(* backtrack, from its entry to its return or to its for loop *)
count_enter ==
    /\ pc = "count_enter"
    /\ IF solutions >= limit
       THEN /\ pc' = "count_return"
            /\ UNCHANGED <<stack, solutions>>
       ELSE LET e == find_empty(Grid)
            IN  IF ~e.empty_found
                THEN /\ solutions' = solutions + 1
                     /\ pc' = "count_return"
                     /\ UNCHANGED stack
                ELSE /\ stack' = Append(stack, [row |-> e.row, col |-> e.col,
                                                digits |-> [i \in 1..N |-> i],
                                                i |-> 1])
                     /\ pc' = "count_loop"
                     /\ UNCHANGED solutions
    /\ UNCHANGED <<board, temp_board, solution, original_cells, uiVars, rng,
                   arg, limit, ret, ret_to, gen, call>>

(* the for loop of backtrack: place the next valid digit and recurse, or   *)
(* run out of digits and return                                            *)
count_loop ==
    /\ pc = "count_loop"
    /\ LET f == Top
           k == next_candidate(Grid, f.row, f.col, f.digits, f.i)
       IN  IF k > N
           THEN /\ stack' = Pop
                /\ pc' = "count_return"
                /\ UNCHANGED <<board, temp_board>>
           ELSE /\ SetGrid([Grid EXCEPT ![f.row][f.col] = f.digits[k]])
                /\ stack' = SetTop([f EXCEPT !.i = k])
                /\ pc' = "count_enter"
    /\ UNCHANGED <<solution, original_cells, uiVars, rng,
                   arg, solutions, limit, ret, ret_to, gen, call>>

(* count_return without the line board[row][col] = 0 *)
count_return_no_undo ==
    /\ pc = "count_return"
    /\ IF stack = <<>>
       THEN /\ pc' = ret_to
            /\ UNCHANGED stack
       ELSE /\ stack' = SetTop([Top EXCEPT !.i = Top.i + 1])
            /\ pc' = "count_loop"
    /\ UNCHANGED <<board, temp_board, solution, original_cells, uiVars, rng,
                   arg, solutions, limit, ret, ret_to, gen, call>>

(* a recursive backtrack call has returned: empty the cell and go on with  *)
(* the loop; the outermost return hands solutions[0] to the caller         *)
count_return ==
    /\ pc = "count_return"
    /\ IF stack = <<>>
       THEN /\ pc' = ret_to
            /\ UNCHANGED <<board, temp_board, stack>>
       ELSE /\ SetGrid([Grid EXCEPT ![Top.row][Top.col] = 0])
            /\ stack' = SetTop([Top EXCEPT !.i = Top.i + 1])
            /\ pc' = "count_loop"
    /\ UNCHANGED <<solution, original_cells, uiVars, rng,
                   arg, solutions, limit, ret, ret_to, gen, call>>

Search ==
    \/ solve_enter \/ solve_loop \/ solve_return
    \/ count_enter \/ count_loop \/ count_return

-----------------------------------------------------------------------------
(* Values of the variables that are not in use *)

NoMarks == [p \in Cells |-> {}]
NoGen == [cells_to_remove |-> 0, positions |-> <<>>, i |-> 0,
          removed |-> 0, backup |-> 0]
NoCall == [op |-> "none", row |-> 0, col |-> 0, num |-> 0, entry |-> EmptyBoard]

-----------------------------------------------------------------------------
(* The core called once from outside on a grid of a bounded family: the    *)
(* solved grid of the specification's scenario B with up to MaxEmpty cells *)
(* of Pool emptied and at most one of the emptied cells refilled with any  *)
(* digit, and the empty grid.                                              *)

FromRows(rows) == [r \in Idx |-> [c \in Idx |-> rows[r + 1][c + 1]]]

GridB == FromRows(<< <<5, 3, 4, 6, 7, 8, 9, 1, 2>>,
                     <<6, 7, 2, 1, 9, 5, 3, 4, 8>>,
                     <<1, 9, 8, 3, 4, 2, 5, 6, 7>>,
                     <<8, 5, 9, 7, 6, 1, 4, 2, 3>>,
                     <<4, 2, 6, 8, 5, 3, 7, 9, 1>>,
                     <<7, 1, 3, 9, 2, 4, 8, 5, 6>>,
                     <<9, 6, 1, 5, 3, 7, 2, 8, 4>>,
                     <<2, 8, 7, 4, 1, 9, 6, 3, 5>>,
                     <<3, 4, 5, 2, 8, 6, 1, 7, 9>> >>)

Pool == {<<0, 0>>, <<0, 3>>, <<0, 4>>, <<3, 3>>, <<3, 4>>}

Clear(b, E) == [r \in Idx |-> [c \in Idx |-> IF <<r, c>> \in E THEN 0 ELSE b[r][c]]]

Emptied == {E \in SUBSET Pool : Cardinality(E) <= MaxEmpty}

(* Complete grids in which only some kinds of unit are broken: two rows  *)
(* of different bands exchanged (rows and columns stay permutations, boxes *)
(* do not), two cells of a row exchanged (the row stays a permutation).    *)
SwapRows(b, r1, r2) ==
    [r \in Idx |-> IF r = r1 THEN b[r2] ELSE IF r = r2 THEN b[r1] ELSE b[r]]
SwapCells(b, r, c1, c2) ==
    [b EXCEPT ![r] = [b[r] EXCEPT ![c1] = b[r][c2], ![c2] = b[r][c1]]]

(* scenario B's grid without the 5 of row 0 and the 5 of column 3: only *)
(* the box of cell (0,3) still holds a 5                               *)
GridBox == Clear(GridB, {<<0, 0>>, <<6, 3>>})

Inputs ==
    {EmptyBoard, GridBox, SwapRows(GridB, 0, 3), SwapCells(GridB, 0, 0, 1)}
    \cup {Clear(GridB, E) : E \in Emptied}
    \cup UNION {{[Clear(GridB, E) EXCEPT ![p[1]][p[2]] = d] :
                   p \in E, d \in Digits} : E \in Emptied}

InitCore ==
    /\ board \in Inputs
    /\ temp_board = EmptyBoard
    /\ solution = EmptyBoard
    /\ original_cells = {}
    /\ pencil_marks = NoMarks
    /\ selected_row = -1
    /\ selected_col = -1
    /\ selected_cell = <<>>
    /\ auto_pencil_active = FALSE
    /\ difficulty = "easy"
    /\ rng = [seed |-> 0, n |-> 0]
    /\ arg = "board"
    /\ stack = <<>>
    /\ solutions = 0
    /\ limit = DefaultLimit
    /\ ret = FALSE
    /\ ret_to = "done"
    /\ gen = NoGen
    /\ pc = "ready"
    /\ call = NoCall

(* self.solve_board(self.board), as generate_solved_board calls it *)
call_solve_board ==
    /\ pc = "ready"
    /\ \E seed \in 0..(NumSeeds - 1) : rng' = [seed |-> seed, n |-> 0]
    /\ call' = [NoCall EXCEPT !.op = "solve", !.entry = board]
    /\ arg' = "board"
    /\ stack' = <<>>
    /\ solutions' = 0
    /\ limit' = DefaultLimit
    /\ ret' = FALSE
    /\ ret_to' = "done"
    /\ pc' = "solve_enter"
    /\ UNCHANGED <<board, temp_board, solution, original_cells, uiVars, gen>>

(* self.count_solutions(self.board, l): solutions = [0], then backtrack() *)
call_count_solutions ==
    /\ pc = "ready"
    /\ \E l \in 1..MaxLimit : limit' = l
    /\ call' = [NoCall EXCEPT !.op = "count", !.entry = board]
    /\ arg' = "board"
    /\ stack' = <<>>
    /\ solutions' = 0
    /\ ret' = FALSE
    /\ ret_to' = "done"
    /\ pc' = "count_enter"
    /\ UNCHANGED <<board, temp_board, solution, original_cells, uiVars, rng, gen>>

(* self.is_valid_placement(self.board, row, col, num) *)
call_is_valid_placement ==
    /\ pc = "ready"
    /\ \E row \in Idx, col \in Idx, num \in Digits :
          /\ call' = [op |-> "valid", row |-> row, col |-> col, num |-> num,
                      entry |-> board]
          /\ ret' = is_valid_placement(board, row, col, num)
    /\ pc' = "done"
    /\ UNCHANGED <<board, temp_board, solution, original_cells, uiVars, rng,
                   searchVarsButRet, gen>>

(* self.is_board_valid() *)
call_is_board_valid ==
    /\ pc = "ready"
    /\ call' = [NoCall EXCEPT !.op = "board_valid", !.entry = board]
    /\ ret' = is_board_valid(board)
    /\ pc' = "done"
    /\ UNCHANGED <<board, temp_board, solution, original_cells, uiVars, rng,
                   searchVarsButRet, gen>>

NextCore ==
    \/ call_solve_board
    \/ call_count_solutions
    \/ call_is_valid_placement
    \/ call_is_board_valid
    \/ Search

SpecCore == InitCore /\ [][NextCore]_vars

-----------------------------------------------------------------------------
(* The pencil-mark helpers *)

(* auto_pencil_marks without its skip of the filled cells *)
auto_pencil_marks_all_cells(b, marks) ==
    [p \in Cells |-> {num \in Digits : is_valid_placement(b, p[1], p[2], num)}]

(* auto_pencil_marks: every empty cell gets the digits placeable there *)
auto_pencil_marks(b, marks) ==
    [p \in Cells |->
        IF b[p[1]][p[2]] # 0 THEN marks[p]
        ELSE {num \in Digits : is_valid_placement(b, p[1], p[2], num)}]

(* clear_all_pencil_marks: every empty cell loses its marks *)
clear_all_pencil_marks(b, marks) ==
    [p \in Cells |-> IF b[p[1]][p[2]] # 0 THEN marks[p] ELSE {}]

(* the toggle of toggle_pencil_mark: remove num if present, else add it *)
toggle(marks, num) == IF num \in marks THEN marks \ {num} ELSE marks \cup {num}

-----------------------------------------------------------------------------
(* The application: __init__, then the handlers of the Tk main loop.       *)

Difficulties == {"easy", "medium", "hard"}

(* the lookup {"easy": 40, "medium": 50, "hard": 55}.get(d, 40) *)
cells_to_remove_for(d) ==
    CASE d = "easy" -> 40
      [] d = "medium" -> 50
      [] d = "hard" -> 55
      [] OTHER -> DefaultRemovals

(* __init__ up to its call of new_game *)
Init ==
    /\ board = EmptyBoard
    /\ temp_board = EmptyBoard
    /\ solution = EmptyBoard
    /\ original_cells = {}
    /\ pencil_marks = NoMarks
    /\ selected_row = -1
    /\ selected_col = -1
    /\ selected_cell = <<>>
    /\ auto_pencil_active = FALSE
    /\ difficulty = "easy"
    /\ rng = [seed |-> 0, n |-> 0]
    /\ arg = "board"
    /\ stack = <<>>
    /\ solutions = 0
    /\ limit = DefaultLimit
    /\ ret = FALSE
    /\ ret_to = "idle"
    /\ gen = NoGen
    /\ pc = "start"
    /\ call = NoCall

(* new_game up to the solve_board call of generate_solved_board; the       *)
(* combobox holds "easy" at construction and any of its values later       *)
new_game ==
    /\ pc \in {"start", "idle"}
    /\ \E d \in Difficulties :
          /\ pc = "start" => d = "easy"
          /\ difficulty' = d
    /\ \E seed \in 0..(GameSeeds - 1) : rng' = [seed |-> seed, n |-> 0]
    /\ selected_row' = -1
    /\ selected_col' = -1
    /\ original_cells' = {}
    /\ auto_pencil_active' = FALSE
    /\ pencil_marks' = NoMarks
    /\ board' = EmptyBoard
    /\ temp_board' = EmptyBoard
    /\ arg' = "board"
    /\ stack' = <<>>
    /\ solutions' = 0
    /\ limit' = DefaultLimit
    /\ ret' = FALSE
    /\ ret_to' = "gen_solved"
    /\ gen' = NoGen
    /\ call' = NoCall
    /\ pc' = "solve_enter"
    /\ UNCHANGED <<solution, selected_cell>>

(* generate_puzzle from the return of generate_solved_board to its loop *)
gen_solved ==
    /\ pc = "gen_solved"
    /\ solution' = board
    /\ gen' = [cells_to_remove |-> cells_to_remove_for(difficulty),
               positions |-> shuffle_positions(rng),
               i |-> 1, removed |-> 0, backup |-> 0]
    /\ rng' = advance(rng)
    /\ pc' = "gen_loop"
    /\ UNCHANGED <<board, temp_board, original_cells, uiVars, searchVars, call>>

(* gen_loop when self.solution is the list object of self.board, as it     *)
(* is without the copy of line 580: clearing a cell of one clears the other *)
gen_loop_aliased ==
    /\ pc = "gen_loop"
    /\ IF gen.i > Len(gen.positions) \/ gen.removed >= gen.cells_to_remove
       THEN /\ pc' = "gen_mark"
            /\ UNCHANGED <<board, temp_board, solution, gen, searchVars>>
       ELSE LET row == gen.positions[gen.i][1]
                col == gen.positions[gen.i][2]
                cleared == [board EXCEPT ![row][col] = 0]
            IN  /\ board' = cleared
                /\ solution' = cleared
                /\ IF gen.removed % CheckEvery = 0
                   THEN /\ temp_board' = cleared
                        /\ gen' = [gen EXCEPT !.backup = board[row][col]]
                        /\ arg' = "temp_board"
                        /\ stack' = <<>>
                        /\ solutions' = 0
                        /\ limit' = DefaultLimit
                        /\ ret_to' = "gen_counted"
                        /\ pc' = "count_enter"
                        /\ UNCHANGED ret
                   ELSE /\ gen' = [gen EXCEPT !.backup = board[row][col],
                                              !.removed = gen.removed + 1,
                                              !.i = gen.i + 1]
                        /\ pc' = "gen_loop"
                        /\ UNCHANGED <<temp_board, searchVars>>
    /\ UNCHANGED <<original_cells, uiVars, rng, call>>

(* one pass of the removal loop, up to the call of count_solutions on a    *)
(* checked pass and to the end of the pass otherwise                       *)
gen_loop ==
    /\ pc = "gen_loop"
    /\ IF gen.i > Len(gen.positions) \/ gen.removed >= gen.cells_to_remove
       THEN /\ pc' = "gen_mark"
            /\ UNCHANGED <<board, temp_board, gen, searchVars>>
       ELSE LET row == gen.positions[gen.i][1]
                col == gen.positions[gen.i][2]
                cleared == [board EXCEPT ![row][col] = 0]
            IN  /\ board' = cleared
                /\ IF gen.removed % CheckEvery = 0
                   THEN /\ temp_board' = cleared
                        /\ gen' = [gen EXCEPT !.backup = board[row][col]]
                        /\ arg' = "temp_board"
                        /\ stack' = <<>>
                        /\ solutions' = 0
                        /\ limit' = DefaultLimit
                        /\ ret_to' = "gen_counted"
                        /\ pc' = "count_enter"
                        /\ UNCHANGED ret
                   ELSE /\ gen' = [gen EXCEPT !.backup = board[row][col],
                                              !.removed = gen.removed + 1,
                                              !.i = gen.i + 1]
                        /\ pc' = "gen_loop"
                        /\ UNCHANGED <<temp_board, searchVars>>
    /\ UNCHANGED <<solution, original_cells, uiVars, rng, call>>

(* gen_counted without the rollback self.board[row][col] = backup *)
gen_counted_no_rollback ==
    /\ pc = "gen_counted"
    /\ IF solutions = 1
       THEN gen' = [gen EXCEPT !.removed = gen.removed + 1, !.i = gen.i + 1]
       ELSE gen' = [gen EXCEPT !.i = gen.i + 1]
    /\ pc' = "gen_loop"
    /\ UNCHANGED <<board, temp_board, solution, original_cells, uiVars, rng,
                   searchVars, call>>

(* gen_counted that keeps the removal whenever a completion was found *)
gen_counted_accepts_any ==
    /\ pc = "gen_counted"
    /\ LET row == gen.positions[gen.i][1]
           col == gen.positions[gen.i][2]
       IN  IF solutions >= 1
           THEN /\ gen' = [gen EXCEPT !.removed = gen.removed + 1,
                                      !.i = gen.i + 1]
                /\ UNCHANGED board
           ELSE /\ board' = [board EXCEPT ![row][col] = gen.backup]
                /\ gen' = [gen EXCEPT !.i = gen.i + 1]
    /\ pc' = "gen_loop"
    /\ UNCHANGED <<temp_board, solution, original_cells, uiVars, rng,
                   searchVars, call>>

(* the rest of a checked pass, after count_solutions has returned *)
gen_counted ==
    /\ pc = "gen_counted"
    /\ LET row == gen.positions[gen.i][1]
           col == gen.positions[gen.i][2]
       IN  IF solutions = 1
           THEN /\ gen' = [gen EXCEPT !.removed = gen.removed + 1,
                                      !.i = gen.i + 1]
                /\ UNCHANGED board
           ELSE /\ board' = [board EXCEPT ![row][col] = gen.backup]
                /\ gen' = [gen EXCEPT !.i = gen.i + 1]
    /\ pc' = "gen_loop"
    /\ UNCHANGED <<temp_board, solution, original_cells, uiVars, rng,
                   searchVars, call>>

(* gen_mark that reads self.solution where the source reads self.board *)
gen_mark_from_solution ==
    /\ pc = "gen_mark"
    /\ original_cells' = {p \in Cells : solution[p[1]][p[2]] # 0}
    /\ gen' = NoGen
    /\ temp_board' = EmptyBoard
    /\ pc' = "generated"
    /\ UNCHANGED <<board, solution, uiVars, rng, searchVars, call>>

(* the end of generate_puzzle, which marks the original cells and returns *)
(* into new_game; its locals are dropped                                   *)
gen_mark ==
    /\ pc = "gen_mark"
    /\ original_cells' = {p \in Cells : board[p[1]][p[2]] # 0}
    /\ gen' = NoGen
    /\ temp_board' = EmptyBoard
    /\ pc' = "generated"
    /\ UNCHANGED <<board, solution, uiVars, rng, searchVars, call>>

(* the end of new_game: update_display, then back to the main loop *)
new_game_end ==
    /\ pc = "generated"
    /\ pc' = "idle"
    /\ UNCHANGED <<board, temp_board, solution, original_cells, uiVars, rng,
                   searchVars, gen, call>>

(* An observer, not a handler: the uniqueness check of generate_puzzle     *)
(* (a copy of the board handed to count_solutions with its default limit)  *)
(* applied to the puzzle that generate_puzzle has just returned. It ends   *)
(* at "audited", where nothing follows.                                    *)
audit_puzzle ==
    /\ pc = "generated"
    /\ temp_board' = board
    /\ arg' = "temp_board"
    /\ stack' = <<>>
    /\ solutions' = 0
    /\ limit' = DefaultLimit
    /\ ret_to' = "audited"
    /\ call' = [NoCall EXCEPT !.op = "audit", !.entry = board]
    /\ pc' = "count_enter"
    /\ UNCHANGED <<board, solution, original_cells, uiVars, rng, ret, gen>>

(* select_cell(row, col): a click on a cell button. call keeps the last    *)
(* of the commands select_cell, place_number and clear_cell, with its      *)
(* arguments and the board it found.                                       *)
select_cell ==
    /\ pc = "idle"
    /\ \E p \in 0..MaxClick :
          LET row == p \div N
              col == p % N
          IN  /\ selected_cell' = <<row, col>>
              /\ call' = [op |-> "select", row |-> row, col |-> col,
                          num |-> 0, entry |-> board]
    /\ UNCHANGED <<board, temp_board, solution, original_cells, pencil_marks,
                   selected_row, selected_col, auto_pencil_active, difficulty,
                   rng, searchVars, gen, pc>>

(* place_number that writes num to the cell select_cell stored, without  *)
(* asking is_valid_placement                                               *)
place_number_unchecked ==
    /\ pc = "idle"
    /\ \E num \in Digits, mode \in {"normal", "pencil"} :
          /\ call' = [op |-> IF mode = "pencil" THEN "pencil" ELSE "place",
                      row |-> selected_row, col |-> selected_col,
                      num |-> num, entry |-> board]
          /\ IF selected_cell = <<>> \/ selected_cell \in original_cells
                \/ mode = "pencil"
             THEN UNCHANGED board
             ELSE board' = [board EXCEPT
                               ![selected_cell[1]][selected_cell[2]] = num]
    /\ UNCHANGED <<temp_board, solution, original_cells, pencil_marks,
                   selected_row, selected_col, selected_cell,
                   auto_pencil_active, difficulty, rng, searchVars, gen, pc>>

(* place_number(num): a number button or a digit key; mode is what the     *)
(* radio buttons' input_mode holds at that time                            *)
place_number ==
    /\ pc = "idle"
    /\ \E num \in Digits, mode \in {"normal", "pencil"} :
          LET row == selected_row
              col == selected_col
              pos == <<row, col>>
          IN  /\ call' = [op |-> IF mode = "pencil" THEN "pencil" ELSE "place",
                          row |-> row, col |-> col, num |-> num,
                          entry |-> board]
              /\ IF row < 0 \/ col < 0 THEN UNCHANGED <<board, pencil_marks>>
                 ELSE IF pos \in original_cells THEN UNCHANGED <<board, pencil_marks>>
                 ELSE IF mode = "pencil"
                      THEN /\ pencil_marks' =
                                 IF board[row][col] # 0 THEN pencil_marks
                                 ELSE [pencil_marks EXCEPT ![pos] = toggle(@, num)]
                           /\ UNCHANGED board
                 ELSE IF is_valid_placement(board, row, col, num)
                      THEN /\ board' = [board EXCEPT ![row][col] = num]
                           /\ pencil_marks' =
                                 IF auto_pencil_active
                                 THEN auto_pencil_marks(board',
                                          [pencil_marks EXCEPT ![pos] = {}])
                                 ELSE [pencil_marks EXCEPT ![pos] = {}]
                      ELSE UNCHANGED <<board, pencil_marks>>
    /\ UNCHANGED <<temp_board, solution, original_cells, selected_row,
                   selected_col, selected_cell, auto_pencil_active, difficulty,
                   rng, searchVars, gen, pc>>

(* clear_cell: the Clear button *)
clear_cell ==
    /\ pc = "idle"
    /\ call' = [op |-> "clear", row |-> selected_row, col |-> selected_col,
                num |-> 0, entry |-> board]
    /\ LET pos == <<selected_row, selected_col>>
       IN  IF selected_row < 0 \/ selected_col < 0
           THEN UNCHANGED <<board, pencil_marks>>
           ELSE IF pos \in original_cells
           THEN UNCHANGED <<board, pencil_marks>>
           ELSE /\ board' = [board EXCEPT ![selected_row][selected_col] = 0]
                /\ pencil_marks' =
                      IF auto_pencil_active
                      THEN auto_pencil_marks(board',
                               [pencil_marks EXCEPT ![pos] = {}])
                      ELSE [pencil_marks EXCEPT ![pos] = {}]
    /\ UNCHANGED <<temp_board, solution, original_cells, selected_row,
                   selected_col, selected_cell, auto_pencil_active, difficulty,
                   rng, searchVars, gen, pc>>

(* clear_pencil_marks: the Clear Pencil button *)
clear_pencil_marks ==
    /\ pc = "idle"
    /\ LET pos == <<selected_row, selected_col>>
       IN  IF selected_row < 0 \/ selected_col < 0 THEN UNCHANGED pencil_marks
           ELSE IF pos \in original_cells THEN UNCHANGED pencil_marks
           ELSE pencil_marks' = [pencil_marks EXCEPT ![pos] = {}]
    /\ UNCHANGED <<board, temp_board, solution, original_cells, selected_row,
                   selected_col, selected_cell, auto_pencil_active, difficulty,
                   rng, searchVars, gen, pc, call>>

(* toggle_auto_pencil: the Auto Pencil button *)
toggle_auto_pencil ==
    /\ pc = "idle"
    /\ auto_pencil_active' = ~auto_pencil_active
    /\ pencil_marks' = IF auto_pencil_active'
                       THEN auto_pencil_marks(board, pencil_marks)
                       ELSE clear_all_pencil_marks(board, pencil_marks)
    /\ UNCHANGED <<board, temp_board, solution, original_cells, selected_row,
                   selected_col, selected_cell, difficulty,
                   rng, searchVars, gen, pc, call>>

(* check_solution: the Check button; ret is whether it congratulates *)
check_solution ==
    /\ pc = "idle"
    /\ ret' = (is_board_filled(board) /\ is_board_valid(board))
    /\ UNCHANGED <<board, temp_board, solution, original_cells, uiVars, rng,
                   searchVarsButRet, gen, pc, call>>

Next ==
    \/ new_game
    \/ gen_solved
    \/ gen_loop
    \/ gen_counted
    \/ gen_mark
    \/ new_game_end
    \/ audit_puzzle
    \/ Search
    \/ select_cell
    \/ place_number
    \/ clear_cell
    \/ clear_pencil_marks
    \/ toggle_auto_pencil
    \/ check_solution

Spec == Init /\ [][Next]_vars

-----------------------------------------------------------------------------
(* The vocabulary of the claims, defined without the program's functions.  *)

(* two positions share a row, a column or a box *)
SameUnit(p, q) ==
    \/ p[1] = q[1]
    \/ p[2] = q[2]
    \/ (p[1] \div Box = q[1] \div Box /\ p[2] \div Box = q[2] \div Box)

Occurs(b, row, col, num) ==
    \E q \in Cells : SameUnit(<<row, col>>, q) /\ b[q[1]][q[2]] = num

UnitConsistent(b) ==
    \A p \in Cells :
        b[p[1]][p[2]] # 0 =>
            \A q \in Cells :
                (q # p /\ SameUnit(p, q)) => b[q[1]][q[2]] # b[p[1]][p[2]]

Units ==
    {{<<r, c>> : c \in Idx} : r \in Idx}
    \cup {{<<r, c>> : r \in Idx} : c \in Idx}
    \cup {{<<Box * i + a, Box * j + d>> : a \in 0..(Box - 1), d \in 0..(Box - 1)} :
            i \in 0..(Box - 1), j \in 0..(Box - 1)}

IsPermutation(b, U) ==
    \A d \in Digits : Cardinality({p \in U : b[p[1]][p[2]] = d}) = 1

Solved(b) == \A U \in Units : IsPermutation(b, U)

Extends(g, b) ==
    \A p \in Cells : b[p[1]][p[2]] # 0 => g[p[1]][p[2]] = b[p[1]][p[2]]

EmptyCells(b) == {p \in Cells : b[p[1]][p[2]] = 0}
EmptyCount(b) == Cardinality(EmptyCells(b))

(* All solved grids that extend b, by trying in each empty cell the digits *)
(* its row lacks; for grids with few empty cells.                          *)
RECURSIVE Comps(_)
Comps(b) ==
    IF EmptyCells(b) = {}
    THEN IF Solved(b) THEN {b} ELSE {}
    ELSE LET p == CHOOSE q \in EmptyCells(b) : TRUE
         IN  UNION {Comps([b EXCEPT ![p[1]][p[2]] = d]) :
                      d \in Digits \ {b[p[1]][c] : c \in Idx}}

(* Solved grids known beforehand: scenario B's with its digits rotated *)
Relabel(g, k) == [r \in Idx |-> [c \in Idx |-> ((g[r][c] - 1 + k) % N) + 1]]
KnownCompletions(b) ==
    {g \in {Relabel(GridB, k) : k \in 0..(N - 1)} : Solved(g) /\ Extends(g, b)}

HasCompletion(b) == KnownCompletions(b) # {} \/ Comps(b) # {}

Done(op) == pc = "done" /\ call.op = op

-----------------------------------------------------------------------------
(* C1: is_valid_placement(board, row, col, num) is False exactly when num  *)
(* occurs in the row, the column or the box of (row, col); it is True for  *)
(* every argument on the empty grid; it leaves the grid as it was.         *)
C1_ValidPlacement ==
    Done("valid") =>
        /\ ret = ~Occurs(call.entry, call.row, call.col, call.num)
        /\ (call.entry = EmptyBoard => ret)
        /\ board = call.entry

(* a refusal owed to the box alone *)
C1_Witness ==
    /\ Done("valid")
    /\ ~ret
    /\ \A c \in Idx : board[call.row][c] # call.num
    /\ \A r \in Idx : board[r][call.col] # call.num

(* C2: on a unit-consistent grid that has a completion (the empty grid     *)
(* among them) solve_board returns True and leaves a grid without empty    *)
(* cell whose rows, columns and boxes are permutations of 1..9 and which   *)
(* keeps every cell that was filled on entry.                              *)
C2_SolveComplete ==
    (Done("solve") /\ UnitConsistent(call.entry) /\ HasCompletion(call.entry)) =>
        /\ ret
        /\ EmptyCells(board) = {}
        /\ Solved(board)
        /\ is_board_filled(board) /\ is_board_valid(board)
        /\ Extends(board, call.entry)

(* the empty grid solved, after more shuffles than there are cells: some   *)
(* placements were undone on the way                                      *)
C2_Witness ==
    /\ Done("solve")
    /\ call.entry = EmptyBoard
    /\ ret
    /\ rng.n > N * N

(* C3: on a unit-consistent grid without completion solve_board returns    *)
(* False and leaves every cell as it was on entry.                         *)
C3_SolveFailRestores ==
    (Done("solve") /\ UnitConsistent(call.entry) /\ ~HasCompletion(call.entry)) =>
        /\ ~ret
        /\ board = call.entry

(* a failure after a placement that had to be undone *)
C3_Witness ==
    /\ Done("solve")
    /\ UnitConsistent(call.entry)
    /\ ~HasCompletion(call.entry)
    /\ ~ret
    /\ rng.n >= 2

(* C4: on a unit-consistent grid count_solutions(board, limit) returns the *)
(* smaller of limit and the number of completions of the grid.             *)
C4_CountIsMin ==
    (Done("count") /\ UnitConsistent(call.entry)) =>
        IF Cardinality(KnownCompletions(call.entry)) >= limit
        THEN solutions = limit
        ELSE solutions = Min({limit, Cardinality(Comps(call.entry))})

(* the empty grid counted with limit 2 *)
C4_Witness ==
    /\ Done("count")
    /\ call.entry = EmptyBoard
    /\ limit = 2
    /\ solutions = 2

(* C9: is_board_valid is True exactly when every row, column and box is a  *)
(* permutation of 1..9: True on scenario B's grid, False on it with cell   *)
(* (0,0) set to 3, False on any grid with an empty cell; the board is left *)
(* as it was.                                                              *)
C9_BoardValid ==
    Done("board_valid") =>
        /\ ret = Solved(call.entry)
        /\ (call.entry = GridB => ret)
        /\ (call.entry = [GridB EXCEPT ![0][0] = 3] => ~ret)
        /\ (EmptyCells(call.entry) # {} => ~ret)
        /\ board = call.entry

(* scenario C *)
C9_Witness ==
    /\ Done("board_valid")
    /\ call.entry = [GridB EXCEPT ![0][0] = 3]
    /\ ~ret

-----------------------------------------------------------------------------
CountPcs == {"count_enter", "count_loop", "count_return"}
InTrial == (pc \in CountPcs /\ ret_to = "gen_counted") \/ pc = "gen_counted"

(* C5: count_solutions hands back the grid it was given as it received it, *)
(* also when it stops at the limit, and the uniqueness check of            *)
(* generate_puzzle works on a copy: while it runs self.board stays the     *)
(* solution without the accepted cells and the cell on trial, and when it  *)
(* returns the copy equals self.board again.                               *)
C5_CountReadOnly ==
    /\ InTrial =>
          /\ Extends(solution, board)
          /\ EmptyCells(board) \subseteq
                {gen.positions[k] : k \in 1..gen.i}
          /\ board[gen.positions[gen.i][1]][gen.positions[gen.i][2]] = 0
          /\ EmptyCount(board) = gen.removed + 1
    /\ pc = "gen_counted" => temp_board = board
    /\ pc = "audited" => (temp_board = call.entry /\ board = call.entry)

(* a check that stopped at the limit, after placements on the copy *)
C5_Witness ==
    /\ pc = "gen_counted"
    /\ solutions = DefaultLimit
    /\ gen.removed >= CheckEvery
    /\ temp_board = board

(* C6: when generate_puzzle has returned, a position of original_cells     *)
(* holds the solution's digit, any other position is empty, and the        *)
(* solution without the cells outside original_cells is the puzzle.        *)
C6_GivensMatch ==
    pc = "generated" =>
        /\ \A p \in Cells :
              IF p \in original_cells
              THEN /\ board[p[1]][p[2]] = solution[p[1]][p[2]]
                   /\ board[p[1]][p[2]] # 0
              ELSE board[p[1]][p[2]] = 0
        /\ original_cells = Cells \ EmptyCells(board)
        /\ Clear(solution, Cells \ original_cells) = board

(* a generated hard puzzle, with givens and with empty cells *)
C6_Witness ==
    /\ pc = "generated"
    /\ difficulty = "hard"
    /\ original_cells # {}
    /\ original_cells # Cells
    /\ Solved(solution)

(* C7: every puzzle generate_puzzle returns has exactly one completion:    *)
(* count_solutions on a copy of it, with limit 2, gives 1.                 *)
C7_UniquePuzzle ==
    pc = "audited" => solutions = 1

(* C8: in generate_puzzle the target is 40 (easy), 50 (medium), 55 (hard)  *)
(* or 40 (any other name); at the head of every pass of the removal loop   *)
(* and after the loop the board has as many empty cells as removals were   *)
(* accepted, while a cell is on trial it has one more, and never more than *)
(* the target; the loop ends with exactly the target unless all 81         *)
(* positions were attempted, and then with fewer.                          *)
C8_RemovalCount ==
    /\ cells_to_remove_for("easy") = 40
    /\ cells_to_remove_for("medium") = 50
    /\ cells_to_remove_for("hard") = 55
    /\ cells_to_remove_for("expert") = 40
    /\ pc \in {"gen_loop", "gen_mark"} =>
          /\ gen.cells_to_remove = cells_to_remove_for(difficulty)
          /\ EmptyCount(board) = gen.removed
          /\ gen.removed <= gen.cells_to_remove
    /\ InTrial => EmptyCount(board) <= gen.cells_to_remove
    /\ pc = "gen_mark" =>
          \/ gen.removed = gen.cells_to_remove
          \/ (gen.i > N * N /\ gen.removed < gen.cells_to_remove)
    /\ (pc = "gen_mark" /\ difficulty = "easy" /\ gen.i <= N * N) =>
          N * N - EmptyCount(board) = 41
    /\ pc = "generated" => EmptyCount(board) <= cells_to_remove_for(difficulty)

(* the easy loop ended with 40 accepted removals and 41 filled cells *)
C8_Witness ==
    /\ pc = "gen_mark"
    /\ difficulty = "easy"
    /\ gen.removed = 40
    /\ N * N - EmptyCount(board) = 41

(* the loop ended because all 81 positions were attempted *)
C8_WitnessExhausted ==
    /\ pc = "gen_mark"
    /\ gen.i > N * N
    /\ gen.removed < gen.cells_to_remove

(* C10: between one new_game and the next no handler changes              *)
(* original_cells, nor the board value or the pencil marks of a position   *)
(* in original_cells.                                                      *)
C10_GivensFrozen ==
    [][(pc = "idle" /\ pc' = "idle") =>
          /\ original_cells' = original_cells
          /\ \A p \in original_cells :
                /\ board'[p[1]][p[2]] = board[p[1]][p[2]]
                /\ pencil_marks'[p] = pencil_marks[p]]_vars

(* a given cell is selected and the auto pencil has filled in marks *)
C10_Witness ==
    /\ pc = "idle"
    /\ selected_cell # <<>>
    /\ selected_cell \in original_cells
    /\ auto_pencil_active
    /\ \E p \in Cells : pencil_marks[p] # {}

-----------------------------------------------------------------------------
(* the control points after the copy of line 580, up to the next new_game *)
AfterCopy ==
    \/ pc \in {"gen_loop", "gen_counted", "gen_mark", "generated", "idle",
               "audited"}
    \/ (pc \in CountPcs /\ ret_to \in {"gen_counted", "audited"})

(* C11: from the copy of the solved board into self.solution until the    *)
(* next new_game, self.solution is a solved grid, and no step of the       *)
(* removal loop, of its uniqueness check or of play changes a cell of it.  *)
(* C11 as a property of every step: the step of the copy makes self.solution   *)
(* the solved board, the control points after the copy are entered by that *)
(* step only, and every other step leaves self.solution as it is.          *)
C11_SolutionFrozen ==
    [][/\ (AfterCopy' /\ ~AfterCopy) => pc = "gen_solved"
       /\ IF pc = "gen_solved"
          THEN solution' = board /\ Solved(solution')
          ELSE solution' = solution]_vars

(* play on a generated puzzle: cells were removed from the board, a pencil *)
(* operation has acted, and the solution is still the solved grid          *)
C11_Witness ==
    /\ pc = "idle"
    /\ Solved(solution)
    /\ EmptyCount(board) >= DefaultRemovals
    /\ Extends(solution, board)
    /\ auto_pencil_active

-----------------------------------------------------------------------------
EnterPcs == {"solve_enter", "count_enter"}
LoopPcs == {"solve_loop", "count_loop"}
InSearch == pc \in {"solve_enter", "solve_loop", "solve_return"} \cup CountPcs

(* row-major order of positions *)
Before(p, q) == p[1] < q[1] \/ (p[1] = q[1] /\ p[2] < q[2])
FramePos(k) == <<stack[k].row, stack[k].col>>

(* the calls in progress: one per frame, and the call just entered *)
Depth == Len(stack) + (IF pc \in EnterPcs THEN 1 ELSE 0)

(* the frames of the call stack, from the outermost call inwards, stand on *)
(* the empty cells of the entry grid in row-major order; the cells of the  *)
(* frames below the top hold a tentative digit, every other cell is as on  *)
(* entry (but when solve_board returns True through its callers, the grid  *)
(* is full); when a loop is about to try a candidate its cell is empty     *)
SearchShape ==
    LET E == EmptyCells(call.entry)
        F == {FramePos(k) : k \in 1..Len(stack)}
    IN  /\ Depth <= Cardinality(E) + 1
        /\ Depth <= N * N + 1
        /\ \A k \in 2..Len(stack) : Before(FramePos(k - 1), FramePos(k))
        /\ stack # <<>> =>
              F = {q \in E : q = FramePos(Len(stack))
                                \/ Before(q, FramePos(Len(stack)))}
        /\ \A k \in 1..(Len(stack) - 1) : Grid[stack[k].row][stack[k].col] # 0
        /\ IF pc = "solve_return" /\ ret
           THEN EmptyCells(Grid) = {} /\ Extends(Grid, call.entry)
           ELSE \A p \in Cells \ F : Grid[p[1]][p[2]] = call.entry[p[1]][p[2]]
        /\ (pc \in LoopPcs) => Grid[Top.row][Top.col] = 0
        /\ (pc \in EnterPcs /\ stack # <<>>) => Grid[Top.row][Top.col] # 0

(* The place of a state in the depth-first order of the search tree: for   *)
(* the outermost call and then for every frame, whether its loop is about  *)
(* to try candidate i (3i), a call on candidate i is in progress (3i + 1), *)
(* or that call has returned (3i + 2).                                     *)
Progress ==
    <<IF stack = <<>> /\ pc \notin EnterPcs THEN 2 ELSE 1>>
    \o [k \in 1..Len(stack) |->
          IF k < Len(stack) \/ pc \in EnterPcs THEN 3 * stack[k].i + 1
          ELSE IF pc \in LoopPcs THEN 3 * stack[k].i
          ELSE 3 * stack[k].i + 2]

(* s comes before t in the lexicographic order, a proper prefix first *)
LexLess(s, t) ==
    LET differ == {m \in 1..Min({Len(s), Len(t)}) : s[m] # t[m]}
    IN  IF differ = {}
        THEN Len(s) < Len(t)
        ELSE s[Min(differ)] < t[Min(differ)]

(* C12: every call of solve_board and of count_solutions returns: each of  *)
(* its steps moves forward in the depth-first order of a finite search     *)
(* tree (at most 82 levels, at most 9 candidates each) and the call leaves *)
(* the search only by returning to its caller; while it runs, each         *)
(* recursive call branches on the first empty cell in row-major order, the *)
(* calls in progress never number more than the cells empty on entry plus  *)
(* one, and a failed branch has emptied its cell before the next candidate *)
(* is tried.                                                               *)
C12_Terminates ==
    [][InSearch =>
          /\ SearchShape
          /\ Len(stack) <= N * N
          /\ \A k \in 1..Len(stack) : stack[k].i \in 1..(N + 1)
          /\ IF InSearch'
             THEN LexLess(Progress, Progress')
             ELSE pc' = ret_to /\ stack = <<>> /\ stack' = <<>>]_vars

(* the 82nd call, on the grid filled by the 81 calls above it, has         *)
(* returned at once                                                        *)
C12_Witness ==
    /\ pc = "solve_return"
    /\ call.entry = EmptyBoard
    /\ Len(stack) = N * N
    /\ ret
    /\ rng.n > N * N

-----------------------------------------------------------------------------
(* the position of the removal attempt in progress *)
Attempt == gen.positions[gen.i]

(* the removal loop is at the head of a pass that makes an attempt *)
Attempting ==
    /\ pc = "gen_loop"
    /\ gen.i <= N * N
    /\ gen.removed < gen.cells_to_remove

(* C13: in the removal loop an attempt is verified with count_solutions    *)
(* (limit 2, on a copy) exactly when the number of accepted removals is a  *)
(* multiple of 5; a verified removal is kept and counted only if the count *)
(* is 1, otherwise the cell gets its digit back and the count of accepted  *)
(* removals stays, so that the next attempt is verified too; any other     *)
(* attempt leaves the cell empty and counts it without a check.            *)
C13_SampledCheck ==
    [][/\ InTrial => gen.removed % 5 = 0
       /\ Attempting =>
             /\ board' = [board EXCEPT ![Attempt[1]][Attempt[2]] = 0]
             /\ board[Attempt[1]][Attempt[2]] = solution[Attempt[1]][Attempt[2]]
             /\ IF gen.removed % 5 = 0
                THEN /\ pc' = "count_enter"
                     /\ ret_to' = "gen_counted"
                     /\ limit' = 2
                     /\ solutions' = 0
                     /\ temp_board' = board'
                     /\ gen'.removed = gen.removed
                     /\ gen'.i = gen.i
                ELSE /\ pc' = "gen_loop"
                     /\ gen'.removed = gen.removed + 1
                     /\ gen'.i = gen.i + 1
       /\ pc = "gen_counted" =>
             /\ pc' = "gen_loop"
             /\ gen'.i = gen.i + 1
             /\ IF solutions = 1
                THEN /\ board' = board
                     /\ board[Attempt[1]][Attempt[2]] = 0
                     /\ gen'.removed = gen.removed + 1
                ELSE /\ board' = [board EXCEPT ![Attempt[1]][Attempt[2]] =
                                     solution[Attempt[1]][Attempt[2]]]
                     /\ board'[Attempt[1]][Attempt[2]] # 0
                     /\ gen'.removed = gen.removed
                     /\ gen'.removed % 5 = 0]_vars

(* an attempt about to be verified right after one that was rolled back,   *)
(* with unverified removals accepted before                                *)
C13_Witness ==
    /\ Attempting
    /\ gen.removed >= 5
    /\ gen.removed % 5 = 0
    /\ gen.i > 1
    /\ board[gen.positions[gen.i - 1][1]][gen.positions[gen.i - 1][2]] # 0

-----------------------------------------------------------------------------
(* the cell of the last select_cell is not a given and num may go there *)
LegalAtSelected(num) ==
    /\ selected_cell # <<>>
    /\ selected_cell \notin original_cells
    /\ ~Occurs(call.entry, selected_cell[1], selected_cell[2], num)

(* C14: the commands act on the cell of the last select_cell: after        *)
(* select_cell(r, c) on a cell that is not a given, place_number(n) in     *)
(* normal mode with n legal at (r, c) leaves board[r][c] = n, and          *)
(* clear_cell() leaves board[r][c] = 0.                                    *)
C14_CommandsActOnSelected ==
    /\ (pc = "idle" /\ call.op = "place" /\ LegalAtSelected(call.num)) =>
          board[selected_cell[1]][selected_cell[2]] = call.num
    /\ (pc = "idle" /\ call.op = "clear" /\ selected_cell # <<>>
          /\ selected_cell \notin original_cells) =>
          board[selected_cell[1]][selected_cell[2]] = 0

====
